---------------------------- MODULE Spec2Model ----------------------------
(***************************************************************************)
(* Breakpoint-condition expressions of the PowerPC debugger                *)
(* (Source/Core/Core/PowerPC/Expression.cpp): the binding table and its    *)
(* lookup, the host function library, and Expression::Evaluate with its    *)
(* two SynchronizeBindings passes, run beside the emulation context.       *)
(*                                                                         *)
(* Numbers.  A double is a record [k, h]: k = "num" with h the value in    *)
(* halves (h = 2 * value, so 3 is h = 6 and 1.5 is h = 3), k = "nan", or   *)
(* k = "inf" with h the sign.  The integer types keep their C++ layout in  *)
(* bytes (u8 1, u16 2, u32 4, s64 8) with a byte of ByteBits bits; every   *)
(* conversion is computed modulo 2^(bytes * ByteBits) as the code does     *)
(* with ByteBits = 8.                                                      *)
(*                                                                         *)
(* Strings (variable names, string literals, guest strings, symbol names)  *)
(* are sequences of character codes, so that ordering, case and substring  *)
(* search are computed and not assumed.                                    *)
(***************************************************************************)
EXTENDS Integers, Sequences, FiniteSets, TLC

VARIABLES
    ppc_state,   \* the processor state: [gpr, ps, spr, pc, msr]
    mem,         \* guest RAM: offset from RamBase -> byte
    callstack,   \* what Dolphin_Debugger::GetCallstack yields: [ok, frames]
    todo,        \* the expressions the front end has still to hand to TryParse
    obj,         \* the Expression object: [live, m_expr, m_vars, m_binds]
    step,        \* position of the evaluating context inside Evaluate (0: outside)
    result,      \* Evaluate's local `result`
    ret,         \* the value the last Evaluate call returned
    held,        \* CPUThreadGuard objects the evaluating context holds
    log,         \* what the current Evaluate call has done so far, in order
    out          \* what Reporting emitted in the current Evaluate call

vars == <<ppc_state, mem, callstack, todo, obj, step, result, ret, held, log, out>>

-----------------------------------------------------------------------------
(* Bounds *)

\* bits per byte of the modelled machine
ByteBits == 2
\* bytes of guest RAM
RamSize == 5

-----------------------------------------------------------------------------
(* Integer types and doubles *)

Min(S) == CHOOSE x \in S : \A y \in S : x <= y

SizeOf(T) ==
    CASE T \in {"u8", "s8"} -> 1
      [] T \in {"u16", "s16"} -> 2
      [] T \in {"u32", "s32"} -> 4
      [] T \in {"u64", "s64"} -> 8

Signed(T) == T \in {"s8", "s16", "s32", "s64"}

Modulus(T) == 2 ^ (SizeOf(T) * ByteBits)

MinOf(T) == IF Signed(T) THEN -(Modulus(T) \div 2) ELSE 0
MaxOf(T) == IF Signed(T) THEN (Modulus(T) \div 2) - 1 ELSE Modulus(T) - 1

Num(h) == [k |-> "num", h |-> h]
DInt(n) == Num(2 * n)
NaN == [k |-> "nan", h |-> 0]
Inf == [k |-> "inf", h |-> 1]

isnan(d) == d.k = "nan"

\* the integer part of a finite double, rounding toward zero
Trunc(d) == IF d.h >= 0 THEN d.h \div 2 ELSE -((-d.h) \div 2)

\* static_cast<T>(double): the truncated value when T can represent it; anything
\* else is undefined behaviour, whose outcome `ub` the caller picks
StaticCastFromDouble(T, d, ub) ==
    IF d.k = "num" /\ Trunc(d) >= MinOf(T) /\ Trunc(d) <= MaxOf(T)
    THEN Trunc(d)
    ELSE MinOf(T) + (ub % Modulus(T))

\* static_cast<T>(integer): the value modulo 2^bits, in T's range
StaticCastFromInt(T, n) ==
    LET m == n % Modulus(T)
    IN  IF Signed(T) /\ m > MaxOf(T) THEN m - Modulus(T) ELSE m

\* Common::BitCast<T>(U) between integer types of one size: the same bit pattern
BitCast(T, n) == StaticCastFromInt(T, n)

\* static_cast<double>(integer), and the implicit conversion of a returned integer
ToDouble(n) == DInt(n)

\* a == b and a + b of the expression language, on doubles
DoubleEq(a, b) == a.k # "nan" /\ b.k # "nan" /\ a = b
DoubleAdd(a, b) ==
    CASE a.k = "nan" \/ b.k = "nan" -> NaN
      [] a.k = "inf" /\ b.k = "inf" -> IF a.h = b.h THEN a ELSE NaN
      [] a.k = "inf" -> a
      [] b.k = "inf" -> b
      [] OTHER -> Num(a.h + b.h)

-----------------------------------------------------------------------------
(* Strings *)

\* std::string_view's operator<: lexicographic on character codes
StrLess(a, b) ==
    LET n == IF Len(a) < Len(b) THEN Len(a) ELSE Len(b)
        diff == {i \in 1..n : a[i] # b[i]}
    IN  IF diff = {} THEN Len(a) < Len(b) ELSE a[Min(diff)] < b[Min(diff)]

\* std::string::find(needle) != npos
Contains(hay, needle) ==
    \E i \in 0..(Len(hay) - Len(needle)) :
        \A j \in 1..Len(needle) : hay[i + j] = needle[j]

-----------------------------------------------------------------------------
(* The binding table and the constructor *)

\* the SPR_* enumerators the table names, as distinct indices into ppc_state.spr
SprIds ==
    << "SPR_XER", "SPR_LR", "SPR_CTR", "SPR_DSISR", "SPR_DAR",
       "SPR_DEC", "SPR_SDR", "SPR_SRR0", "SPR_SRR1", "SPR_TL",
       "SPR_TU", "SPR_PVR", "SPR_SPRG0", "SPR_SPRG1", "SPR_SPRG2",
       "SPR_SPRG3", "SPR_EAR", "SPR_IBAT0U", "SPR_IBAT0L", "SPR_IBAT1U",
       "SPR_IBAT1L", "SPR_IBAT2U", "SPR_IBAT2L", "SPR_IBAT3U", "SPR_IBAT3L",
       "SPR_IBAT4U", "SPR_IBAT4L", "SPR_IBAT5U", "SPR_IBAT5L", "SPR_IBAT6U",
       "SPR_IBAT6L", "SPR_IBAT7U", "SPR_IBAT7L", "SPR_DBAT0U", "SPR_DBAT0L",
       "SPR_DBAT1U", "SPR_DBAT1L", "SPR_DBAT2U", "SPR_DBAT2L", "SPR_DBAT3U",
       "SPR_DBAT3L", "SPR_DBAT4U", "SPR_DBAT4L", "SPR_DBAT5U", "SPR_DBAT5L",
       "SPR_DBAT6U", "SPR_DBAT6L", "SPR_DBAT7U", "SPR_DBAT7L", "SPR_GQR0",
       "SPR_GQR1", "SPR_GQR2", "SPR_GQR3", "SPR_GQR4", "SPR_GQR5",
       "SPR_GQR6", "SPR_GQR7", "SPR_HID0", "SPR_HID1", "SPR_HID2",
       "SPR_HID4", "SPR_IABR", "SPR_DABR", "SPR_WPAR", "SPR_DMAU",
       "SPR_DMAL", "SPR_ECID_U", "SPR_ECID_M", "SPR_ECID_L", "SPR_USIA",
       "SPR_SIA", "SPR_L2CR", "SPR_ICTC", "SPR_MMCR0", "SPR_MMCR1",
       "SPR_PMC1", "SPR_PMC2", "SPR_PMC3", "SPR_PMC4", "SPR_THRM1",
       "SPR_THRM2", "SPR_THRM3" >>

SPR(id) == CHOOSE i \in 1..Len(SprIds) : SprIds[i] = id

NumGPR == 32

\* a default-constructed VarBinding
ZeroBinding == [type |-> "Zero", index |-> 0]

KV(name, type, index) == [first |-> name, second |-> [type |-> type, index |-> index]]

unsorted_lookup ==
    <<
       KV(<<114, 48>>, "GPR", 0),  \* "r0"
       KV(<<114, 49>>, "GPR", 1),  \* "r1"
       KV(<<114, 50>>, "GPR", 2),  \* "r2"
       KV(<<114, 51>>, "GPR", 3),  \* "r3"
       KV(<<114, 52>>, "GPR", 4),  \* "r4"
       KV(<<114, 53>>, "GPR", 5),  \* "r5"
       KV(<<114, 54>>, "GPR", 6),  \* "r6"
       KV(<<114, 55>>, "GPR", 7),  \* "r7"
       KV(<<114, 56>>, "GPR", 8),  \* "r8"
       KV(<<114, 57>>, "GPR", 9),  \* "r9"
       KV(<<114, 49, 48>>, "GPR", 10),  \* "r10"
       KV(<<114, 49, 49>>, "GPR", 11),  \* "r11"
       KV(<<114, 49, 50>>, "GPR", 12),  \* "r12"
       KV(<<114, 49, 51>>, "GPR", 13),  \* "r13"
       KV(<<114, 49, 52>>, "GPR", 14),  \* "r14"
       KV(<<114, 49, 53>>, "GPR", 15),  \* "r15"
       KV(<<114, 49, 54>>, "GPR", 16),  \* "r16"
       KV(<<114, 49, 55>>, "GPR", 17),  \* "r17"
       KV(<<114, 49, 56>>, "GPR", 18),  \* "r18"
       KV(<<114, 49, 57>>, "GPR", 19),  \* "r19"
       KV(<<114, 50, 48>>, "GPR", 20),  \* "r20"
       KV(<<114, 50, 49>>, "GPR", 21),  \* "r21"
       KV(<<114, 50, 50>>, "GPR", 22),  \* "r22"
       KV(<<114, 50, 51>>, "GPR", 23),  \* "r23"
       KV(<<114, 50, 52>>, "GPR", 24),  \* "r24"
       KV(<<114, 50, 53>>, "GPR", 25),  \* "r25"
       KV(<<114, 50, 54>>, "GPR", 26),  \* "r26"
       KV(<<114, 50, 55>>, "GPR", 27),  \* "r27"
       KV(<<114, 50, 56>>, "GPR", 28),  \* "r28"
       KV(<<114, 50, 57>>, "GPR", 29),  \* "r29"
       KV(<<114, 51, 48>>, "GPR", 30),  \* "r30"
       KV(<<114, 51, 49>>, "GPR", 31),  \* "r31"
       KV(<<102, 48>>, "FPR", 0),  \* "f0"
       KV(<<102, 49>>, "FPR", 1),  \* "f1"
       KV(<<102, 50>>, "FPR", 2),  \* "f2"
       KV(<<102, 51>>, "FPR", 3),  \* "f3"
       KV(<<102, 52>>, "FPR", 4),  \* "f4"
       KV(<<102, 53>>, "FPR", 5),  \* "f5"
       KV(<<102, 54>>, "FPR", 6),  \* "f6"
       KV(<<102, 55>>, "FPR", 7),  \* "f7"
       KV(<<102, 56>>, "FPR", 8),  \* "f8"
       KV(<<102, 57>>, "FPR", 9),  \* "f9"
       KV(<<102, 49, 48>>, "FPR", 10),  \* "f10"
       KV(<<102, 49, 49>>, "FPR", 11),  \* "f11"
       KV(<<102, 49, 50>>, "FPR", 12),  \* "f12"
       KV(<<102, 49, 51>>, "FPR", 13),  \* "f13"
       KV(<<102, 49, 52>>, "FPR", 14),  \* "f14"
       KV(<<102, 49, 53>>, "FPR", 15),  \* "f15"
       KV(<<102, 49, 54>>, "FPR", 16),  \* "f16"
       KV(<<102, 49, 55>>, "FPR", 17),  \* "f17"
       KV(<<102, 49, 56>>, "FPR", 18),  \* "f18"
       KV(<<102, 49, 57>>, "FPR", 19),  \* "f19"
       KV(<<102, 50, 48>>, "FPR", 20),  \* "f20"
       KV(<<102, 50, 49>>, "FPR", 21),  \* "f21"
       KV(<<102, 50, 50>>, "FPR", 22),  \* "f22"
       KV(<<102, 50, 51>>, "FPR", 23),  \* "f23"
       KV(<<102, 50, 52>>, "FPR", 24),  \* "f24"
       KV(<<102, 50, 53>>, "FPR", 25),  \* "f25"
       KV(<<102, 50, 54>>, "FPR", 26),  \* "f26"
       KV(<<102, 50, 55>>, "FPR", 27),  \* "f27"
       KV(<<102, 50, 56>>, "FPR", 28),  \* "f28"
       KV(<<102, 50, 57>>, "FPR", 29),  \* "f29"
       KV(<<102, 51, 48>>, "FPR", 30),  \* "f30"
       KV(<<102, 51, 49>>, "FPR", 31),  \* "f31"
       KV(<<112, 99>>, "PCtr", 0),  \* "pc"
       KV(<<109, 115, 114>>, "MSR", 0),  \* "msr"
       KV(<<120, 101, 114>>, "SPR", SPR("SPR_XER")),  \* "xer"
       KV(<<108, 114>>, "SPR", SPR("SPR_LR")),  \* "lr"
       KV(<<99, 116, 114>>, "SPR", SPR("SPR_CTR")),  \* "ctr"
       KV(<<100, 115, 105, 115, 114>>, "SPR", SPR("SPR_DSISR")),  \* "dsisr"
       KV(<<100, 97, 114>>, "SPR", SPR("SPR_DAR")),  \* "dar"
       KV(<<100, 101, 99>>, "SPR", SPR("SPR_DEC")),  \* "dec"
       KV(<<115, 100, 114, 49>>, "SPR", SPR("SPR_SDR")),  \* "sdr1"
       KV(<<115, 114, 114, 48>>, "SPR", SPR("SPR_SRR0")),  \* "srr0"
       KV(<<115, 114, 114, 49>>, "SPR", SPR("SPR_SRR1")),  \* "srr1"
       KV(<<116, 98, 108>>, "SPR", SPR("SPR_TL")),  \* "tbl"
       KV(<<116, 98, 117>>, "SPR", SPR("SPR_TU")),  \* "tbu"
       KV(<<112, 118, 114>>, "SPR", SPR("SPR_PVR")),  \* "pvr"
       KV(<<115, 112, 114, 103, 48>>, "SPR", SPR("SPR_SPRG0")),  \* "sprg0"
       KV(<<115, 112, 114, 103, 49>>, "SPR", SPR("SPR_SPRG1")),  \* "sprg1"
       KV(<<115, 112, 114, 103, 50>>, "SPR", SPR("SPR_SPRG2")),  \* "sprg2"
       KV(<<115, 112, 114, 103, 51>>, "SPR", SPR("SPR_SPRG3")),  \* "sprg3"
       KV(<<101, 97, 114>>, "SPR", SPR("SPR_EAR")),  \* "ear"
       KV(<<105, 98, 97, 116, 48, 117>>, "SPR", SPR("SPR_IBAT0U")),  \* "ibat0u"
       KV(<<105, 98, 97, 116, 48, 108>>, "SPR", SPR("SPR_IBAT0L")),  \* "ibat0l"
       KV(<<105, 98, 97, 116, 49, 117>>, "SPR", SPR("SPR_IBAT1U")),  \* "ibat1u"
       KV(<<105, 98, 97, 116, 49, 108>>, "SPR", SPR("SPR_IBAT1L")),  \* "ibat1l"
       KV(<<105, 98, 97, 116, 50, 117>>, "SPR", SPR("SPR_IBAT2U")),  \* "ibat2u"
       KV(<<105, 98, 97, 116, 50, 108>>, "SPR", SPR("SPR_IBAT2L")),  \* "ibat2l"
       KV(<<105, 98, 97, 116, 51, 117>>, "SPR", SPR("SPR_IBAT3U")),  \* "ibat3u"
       KV(<<105, 98, 97, 116, 51, 108>>, "SPR", SPR("SPR_IBAT3L")),  \* "ibat3l"
       KV(<<105, 98, 97, 116, 52, 117>>, "SPR", SPR("SPR_IBAT4U")),  \* "ibat4u"
       KV(<<105, 98, 97, 116, 52, 108>>, "SPR", SPR("SPR_IBAT4L")),  \* "ibat4l"
       KV(<<105, 98, 97, 116, 53, 117>>, "SPR", SPR("SPR_IBAT5U")),  \* "ibat5u"
       KV(<<105, 98, 97, 116, 53, 108>>, "SPR", SPR("SPR_IBAT5L")),  \* "ibat5l"
       KV(<<105, 98, 97, 116, 54, 117>>, "SPR", SPR("SPR_IBAT6U")),  \* "ibat6u"
       KV(<<105, 98, 97, 116, 54, 108>>, "SPR", SPR("SPR_IBAT6L")),  \* "ibat6l"
       KV(<<105, 98, 97, 116, 55, 117>>, "SPR", SPR("SPR_IBAT7U")),  \* "ibat7u"
       KV(<<105, 98, 97, 116, 55, 108>>, "SPR", SPR("SPR_IBAT7L")),  \* "ibat7l"
       KV(<<100, 98, 97, 116, 48, 117>>, "SPR", SPR("SPR_DBAT0U")),  \* "dbat0u"
       KV(<<100, 98, 97, 116, 48, 108>>, "SPR", SPR("SPR_DBAT0L")),  \* "dbat0l"
       KV(<<100, 98, 97, 116, 49, 117>>, "SPR", SPR("SPR_DBAT1U")),  \* "dbat1u"
       KV(<<100, 98, 97, 116, 49, 108>>, "SPR", SPR("SPR_DBAT1L")),  \* "dbat1l"
       KV(<<100, 98, 97, 116, 50, 117>>, "SPR", SPR("SPR_DBAT2U")),  \* "dbat2u"
       KV(<<100, 98, 97, 116, 50, 108>>, "SPR", SPR("SPR_DBAT2L")),  \* "dbat2l"
       KV(<<100, 98, 97, 116, 51, 117>>, "SPR", SPR("SPR_DBAT3U")),  \* "dbat3u"
       KV(<<100, 98, 97, 116, 51, 108>>, "SPR", SPR("SPR_DBAT3L")),  \* "dbat3l"
       KV(<<100, 98, 97, 116, 52, 117>>, "SPR", SPR("SPR_DBAT4U")),  \* "dbat4u"
       KV(<<100, 98, 97, 116, 52, 108>>, "SPR", SPR("SPR_DBAT4L")),  \* "dbat4l"
       KV(<<100, 98, 97, 116, 53, 117>>, "SPR", SPR("SPR_DBAT5U")),  \* "dbat5u"
       KV(<<100, 98, 97, 116, 53, 108>>, "SPR", SPR("SPR_DBAT5L")),  \* "dbat5l"
       KV(<<100, 98, 97, 116, 54, 117>>, "SPR", SPR("SPR_DBAT6U")),  \* "dbat6u"
       KV(<<100, 98, 97, 116, 54, 108>>, "SPR", SPR("SPR_DBAT6L")),  \* "dbat6l"
       KV(<<100, 98, 97, 116, 55, 117>>, "SPR", SPR("SPR_DBAT7U")),  \* "dbat7u"
       KV(<<100, 98, 97, 116, 55, 108>>, "SPR", SPR("SPR_DBAT7L")),  \* "dbat7l"
       KV(<<103, 113, 114, 48>>, "SPR", SPR("SPR_GQR0") + 0),  \* "gqr0"
       KV(<<103, 113, 114, 49>>, "SPR", SPR("SPR_GQR0") + 1),  \* "gqr1"
       KV(<<103, 113, 114, 50>>, "SPR", SPR("SPR_GQR0") + 2),  \* "gqr2"
       KV(<<103, 113, 114, 51>>, "SPR", SPR("SPR_GQR0") + 3),  \* "gqr3"
       KV(<<103, 113, 114, 52>>, "SPR", SPR("SPR_GQR0") + 4),  \* "gqr4"
       KV(<<103, 113, 114, 53>>, "SPR", SPR("SPR_GQR0") + 5),  \* "gqr5"
       KV(<<103, 113, 114, 54>>, "SPR", SPR("SPR_GQR0") + 6),  \* "gqr6"
       KV(<<103, 113, 114, 55>>, "SPR", SPR("SPR_GQR0") + 7),  \* "gqr7"
       KV(<<104, 105, 100, 48>>, "SPR", SPR("SPR_HID0")),  \* "hid0"
       KV(<<104, 105, 100, 49>>, "SPR", SPR("SPR_HID1")),  \* "hid1"
       KV(<<104, 105, 100, 50>>, "SPR", SPR("SPR_HID2")),  \* "hid2"
       KV(<<104, 105, 100, 52>>, "SPR", SPR("SPR_HID4")),  \* "hid4"
       KV(<<105, 97, 98, 114>>, "SPR", SPR("SPR_IABR")),  \* "iabr"
       KV(<<100, 97, 98, 114>>, "SPR", SPR("SPR_DABR")),  \* "dabr"
       KV(<<119, 112, 97, 114>>, "SPR", SPR("SPR_WPAR")),  \* "wpar"
       KV(<<100, 109, 97, 117>>, "SPR", SPR("SPR_DMAU")),  \* "dmau"
       KV(<<100, 109, 97, 108>>, "SPR", SPR("SPR_DMAL")),  \* "dmal"
       KV(<<101, 99, 105, 100, 95, 117>>, "SPR", SPR("SPR_ECID_U")),  \* "ecid_u"
       KV(<<101, 99, 105, 100, 95, 109>>, "SPR", SPR("SPR_ECID_M")),  \* "ecid_m"
       KV(<<101, 99, 105, 100, 95, 108>>, "SPR", SPR("SPR_ECID_L")),  \* "ecid_l"
       KV(<<117, 115, 105, 97>>, "SPR", SPR("SPR_USIA")),  \* "usia"
       KV(<<115, 105, 97>>, "SPR", SPR("SPR_SIA")),  \* "sia"
       KV(<<108, 50, 99, 114>>, "SPR", SPR("SPR_L2CR")),  \* "l2cr"
       KV(<<105, 99, 116, 99>>, "SPR", SPR("SPR_ICTC")),  \* "ictc"
       KV(<<109, 109, 99, 114, 48>>, "SPR", SPR("SPR_MMCR0")),  \* "mmcr0"
       KV(<<109, 109, 99, 114, 49>>, "SPR", SPR("SPR_MMCR1")),  \* "mmcr1"
       KV(<<112, 109, 99, 49>>, "SPR", SPR("SPR_PMC1")),  \* "pmc1"
       KV(<<112, 109, 99, 50>>, "SPR", SPR("SPR_PMC2")),  \* "pmc2"
       KV(<<112, 109, 99, 51>>, "SPR", SPR("SPR_PMC3")),  \* "pmc3"
       KV(<<112, 109, 99, 52>>, "SPR", SPR("SPR_PMC4")),  \* "pmc4"
       KV(<<116, 104, 114, 109, 49>>, "SPR", SPR("SPR_THRM1")),  \* "thrm1"
       KV(<<116, 104, 114, 109, 50>>, "SPR", SPR("SPR_THRM2")),  \* "thrm2"
       KV(<<116, 104, 114, 109, 51>>, "SPR", SPR("SPR_THRM3"))   \* "thrm3"
    >>

\* the table left in the order it is written in
SortByFirst_Unsorted(s) == s

\* std::ranges::sort(s, {}, &LookupKV::first): s reordered by ascending key; the
\* rank of an entry is the number of entries that come before it
SortByFirst(s) ==
    LET rank == [i \in 1..Len(s) |->
                    Cardinality({j \in 1..Len(s) :
                        \/ StrLess(s[j].first, s[i].first)
                        \/ (s[j].first = s[i].first /\ j < i)})]
    IN  [k \in 1..Len(s) |-> s[CHOOSE i \in 1..Len(s) : rank[i] = k - 1]]

sorted_lookup == SortByFirst(unsorted_lookup)

\* std::ranges::lower_bound(table, name, {}, &LookupKV::first): the first position
\* in first..first+len whose key is not less than name (Len(table) + 1: end())
RECURSIVE lower_bound_from(_, _, _, _)
lower_bound_from(table, name, first, len) ==
    IF len <= 0 THEN first
    ELSE LET half == len \div 2
             mid == first + half
         IN  IF StrLess(table[mid].first, name)
             THEN lower_bound_from(table, name, mid + 1, len - half - 1)
             ELSE lower_bound_from(table, name, first, half)

lower_bound(table, name) == lower_bound_from(table, name, 1, Len(table))

\* the lookup without the key comparison that follows lower_bound
ResolveBinding_NoKeyCheck(name) ==
    LET iter == lower_bound(sorted_lookup, name)
    IN  IF iter # Len(sorted_lookup) + 1
        THEN sorted_lookup[iter].second
        ELSE ZeroBinding

\* one turn of the constructor's loop: the binding emplaced for a variable name
ResolveBinding(name) ==
    LET iter == lower_bound(sorted_lookup, name)
    IN  IF iter # Len(sorted_lookup) + 1 /\ sorted_lookup[iter].first = name
        THEN sorted_lookup[iter].second
        ELSE ZeroBinding

-----------------------------------------------------------------------------
(* Guest memory, as the MMU's host accessors present it *)

\* the first RAM address: the upper half of the 32-bit address space
RamBase == Modulus("u32") \div 2

IsRAMAddress(address, n) == address >= RamBase /\ address + n <= RamBase + RamSize

\* PowerPC::MMU::HostRead_U8/16/32/64: big-endian; 0 when the access fails
RECURSIVE BytesToInt(_, _, _)
BytesToInt(m, off, n) ==
    IF n = 0 THEN 0
    ELSE BytesToInt(m, off, n - 1) * (2 ^ ByteBits) + m[off + n - 1]

HostRead(U, m, address) ==
    IF IsRAMAddress(address, SizeOf(U))
    THEN BytesToInt(m, address - RamBase, SizeOf(U))
    ELSE 0

\* PowerPC::MMU::HostWrite_U8/16/32/64: big-endian; nothing when the access fails
HostWrite(U, m, var, address) ==
    IF IsRAMAddress(address, SizeOf(U))
    THEN [o \in DOMAIN m |->
            IF o >= address - RamBase /\ o < address - RamBase + SizeOf(U)
            THEN (var \div (2 ^ (ByteBits * (SizeOf(U) - 1 - (o - (address - RamBase))))))
                     % (2 ^ ByteBits)
            ELSE m[o]]
    ELSE m

\* PowerPC::MMU::HostGetString: the bytes from address up to a NUL or the end of RAM
RECURSIVE HostGetString(_, _)
HostGetString(m, address) ==
    IF ~IsRAMAddress(address, 1) THEN <<>>
    ELSE IF m[address - RamBase] = 0 THEN <<>>
    ELSE <<m[address - RamBase]>> \o HostGetString(m, address + 1)

-----------------------------------------------------------------------------
(* Compiled expressions (expr.h): the nodes the evaluator walks *)

Const(d) == [op |-> "const", f |-> "", name |-> <<>>, val |-> d, args |-> <<>>]
Str(s) == [op |-> "string", f |-> "", name |-> s, val |-> NaN, args |-> <<>>]
Var(n) == [op |-> "var", f |-> "", name |-> n, val |-> NaN, args |-> <<>>]
Assign(n, e) == [op |-> "=", f |-> "", name |-> n, val |-> NaN, args |-> <<e>>]
Eq(a, b) == [op |-> "==", f |-> "", name |-> <<>>, val |-> NaN, args |-> <<a, b>>]
Add(a, b) == [op |-> "+", f |-> "", name |-> <<>>, val |-> NaN, args |-> <<a, b>>]
Call(f, args) == [op |-> "func", f |-> f, name |-> <<>>, val |-> NaN, args |-> args]

\* expr_get_str: the literal of a string node, and nullptr for any other node
NullStr == [null |-> TRUE, s |-> <<>>]
expr_get_str(e) == IF e.op = "string" THEN [null |-> FALSE, s |-> e.name] ELSE NullStr

\* the variables expr_create collects: one per distinct identifier, in source order
RECURSIVE expr_names(_)
AppendNew(seq, more) ==
    LET keep == [i \in 1..Len(more) |->
                    (\A j \in 1..Len(seq) : seq[j] # more[i])
                    /\ (\A j \in 1..(i - 1) : more[j] # more[i])]
        idx == {i \in 1..Len(more) : keep[i]}
        nth(k) == CHOOSE i \in idx : Cardinality({j \in idx : j < i}) = k - 1
    IN  seq \o [k \in 1..Cardinality(idx) |-> more[nth(k)]]
expr_names(e) ==
    LET own == IF e.op \in {"var", "="} THEN <<e.name>> ELSE <<>>
    IN  CASE Len(e.args) = 0 -> own
          [] Len(e.args) = 1 -> AppendNew(own, expr_names(e.args[1]))
          [] OTHER -> AppendNew(AppendNew(own, expr_names(e.args[1])),
                                expr_names(e.args[2]))

VarIndex(names, n) == CHOOSE i \in 1..Len(names) : names[i] = n

-----------------------------------------------------------------------------
(* The evaluation state threaded through expr_eval and the host functions:  *)
(*   vals   the slot (expr_var::value) of each variable, in m_vars order    *)
(*   names  the variables' names                                            *)
(*   mem    guest RAM                                                       *)
(*   stack  what GetCallstack yields                                        *)
(*   held   CPUThreadGuard objects alive on the evaluating context          *)
(*   ub     the outcome of an out-of-range double-to-integer conversion     *)
(*   log    events so far: [op, f, held]                                    *)

Event(op, f, h) == [op |-> op, f |-> f, held |-> h]

Note(s, op, f) == [s EXCEPT !.log = Append(@, Event(op, f, s.held))]

\* Core::CPUThreadGuard guard(...): construction, and destruction at scope exit
GuardEnter(s) == Note([s EXCEPT !.held = @ + 1], "guard", "")
GuardLeave(s) == [Note(s, "unguard", "") EXCEPT !.held = @ - 1]

Ret(v, s) == [v |-> v, s |-> s]

\* the function table: name -> the template instance it names
Fn(fn, T, U) == [fn |-> fn, T |-> T, U |-> U]
g_expr_funcs ==
    [read_u8 |-> Fn("HostReadFunc", "u8", "u8"),
     read_s8 |-> Fn("HostReadFunc", "s8", "u8"),
     read_u16 |-> Fn("HostReadFunc", "u16", "u16"),
     read_s16 |-> Fn("HostReadFunc", "s16", "u16"),
     read_u32 |-> Fn("HostReadFunc", "u32", "u32"),
     read_s32 |-> Fn("HostReadFunc", "s32", "u32"),
     write_u8 |-> Fn("HostWriteFunc", "u8", "u8"),
     write_u16 |-> Fn("HostWriteFunc", "u16", "u16"),
     write_u32 |-> Fn("HostWriteFunc", "u32", "u32"),
     u8 |-> Fn("CastFunc", "u8", "u8"),
     s8 |-> Fn("CastFunc", "s8", "u8"),
     u16 |-> Fn("CastFunc", "u16", "u16"),
     s16 |-> Fn("CastFunc", "s16", "u16"),
     u32 |-> Fn("CastFunc", "u32", "u32"),
     s32 |-> Fn("CastFunc", "s32", "u32"),
     callstack |-> Fn("CallstackFunc", "", ""),
     streq |-> Fn("StreqFunc", "", "")]

RECURSIVE expr_eval(_, _)
RECURSIVE HostReadFunc(_, _, _, _)
RECURSIVE HostWriteFunc(_, _, _, _)
RECURSIVE CastFunc(_, _, _, _)
RECURSIVE CallstackFunc(_, _)
RECURSIVE ReadStringArg(_, _)
RECURSIVE StreqFunc(_, _)

\* expr_eval: constants, string literals (not a number), variables, assignment,
\* ==, + and calls through the function table
expr_eval(e, s) ==
    CASE e.op = "const" -> Ret(e.val, s)
      [] e.op = "string" -> Ret(NaN, s)
      [] e.op = "var" -> Ret(s.vals[VarIndex(s.names, e.name)], s)
      [] e.op = "=" ->
            LET r == expr_eval(e.args[1], s)
            IN  Ret(r.v, [r.s EXCEPT !.vals[VarIndex(s.names, e.name)] = r.v])
      [] e.op = "==" ->
            LET a == expr_eval(e.args[1], s)
                b == expr_eval(e.args[2], a.s)
            IN  Ret(IF DoubleEq(a.v, b.v) THEN DInt(1) ELSE DInt(0), b.s)
      [] e.op = "+" ->
            LET a == expr_eval(e.args[1], s)
                b == expr_eval(e.args[2], a.s)
            IN  Ret(DoubleAdd(a.v, b.v), b.s)
      [] e.op = "func" ->
            LET fn == g_expr_funcs[e.f]
                s0 == Note(s, "func", e.f)
            IN  CASE fn.fn = "HostReadFunc" -> HostReadFunc(fn.T, fn.U, e.args, s0)
                  [] fn.fn = "HostWriteFunc" -> HostWriteFunc(fn.T, fn.U, e.args, s0)
                  [] fn.fn = "CastFunc" -> CastFunc(fn.T, fn.U, e.args, s0)
                  [] fn.fn = "CallstackFunc" -> CallstackFunc(e.args, s0)
                  [] fn.fn = "StreqFunc" -> StreqFunc(e.args, s0)

-----------------------------------------------------------------------------
(* The host function library *)

\* HostReadFunc<T, U>
HostReadFunc(T, U, args, s) ==
    IF Len(args) # 1 THEN Ret(DInt(0), s)
    ELSE LET a == expr_eval(args[1], s)
             address == StaticCastFromDouble("u32", a.v, s.ub)
             g == GuardEnter(a.s)
             r == Note(g, "HostRead", U)
         IN  Ret(ToDouble(BitCast(T, HostRead(U, r.mem, address))), GuardLeave(r))

\* HostWriteFunc<T, U> with the two arguments taken in the other order
HostWriteFunc_SwappedArgs(T, U, args, s) ==
    IF Len(args) # 2 THEN Ret(DInt(0), s)
    ELSE LET a == expr_eval(args[1], s)
             address == StaticCastFromDouble("u32", a.v, s.ub)
             b == expr_eval(args[2], a.s)
             var == StaticCastFromDouble(T, b.v, s.ub)
             g == GuardEnter(b.s)
             w == Note([g EXCEPT !.mem = HostWrite(U, @, BitCast(U, var), address)],
                       "HostWrite", U)
         IN  Ret(ToDouble(var), GuardLeave(w))

\* HostWriteFunc<T, U> that only asks for at least two arguments
HostWriteFunc_AtLeastTwoArgs(T, U, args, s) ==
    IF Len(args) < 2 THEN Ret(DInt(0), s)
    ELSE LET a == expr_eval(args[1], s)
             var == StaticCastFromDouble(T, a.v, s.ub)
             b == expr_eval(args[2], a.s)
             address == StaticCastFromDouble("u32", b.v, s.ub)
             g == GuardEnter(b.s)
             w == Note([g EXCEPT !.mem = HostWrite(U, @, BitCast(U, var), address)],
                       "HostWrite", U)
         IN  Ret(ToDouble(var), GuardLeave(w))

\* HostWriteFunc<T, U>
HostWriteFunc(T, U, args, s) ==
    IF Len(args) # 2 THEN Ret(DInt(0), s)
    ELSE LET a == expr_eval(args[1], s)
             var == StaticCastFromDouble(T, a.v, s.ub)
             b == expr_eval(args[2], a.s)
             address == StaticCastFromDouble("u32", b.v, s.ub)
             g == GuardEnter(b.s)
             w == Note([g EXCEPT !.mem = HostWrite(U, @, BitCast(U, var), address)],
                       "HostWrite", U)
         IN  Ret(ToDouble(var), GuardLeave(w))

\* CastFunc<T, U>
CastFunc(T, U, args, s) ==
    IF Len(args) # 1 THEN Ret(DInt(0), s)
    ELSE LET a == expr_eval(args[1], s)
         IN  Ret(ToDouble(BitCast(T, StaticCastFromDouble(U, a.v, s.ub))), a.s)

Bool(b) == IF b THEN DInt(1) ELSE DInt(0)

\* CallstackFunc that uses the frames whatever GetCallstack reports
CallstackFunc_NoSuccessCheck(args, s) ==
    IF Len(args) # 1 THEN Ret(DInt(0), s)
    ELSE LET g == Note(GuardEnter(s), "GetCallstack", "")
             stack == g.stack.frames
             u == GuardLeave(g)
             num == expr_eval(args[1], u)
             address == StaticCastFromDouble("u32", num.v, s.ub)
             cstr == expr_get_str(args[1])
             AtAddress == \E i \in 1..Len(stack) : stack[i].vAddress = address
             Named == \E i \in 1..Len(stack) : Contains(stack[i].Name, cstr.s)
         IN  IF ~isnan(num.v) THEN Ret(Bool(AtAddress), num.s)
             ELSE IF ~cstr.null THEN Ret(Bool(Named), num.s)
             ELSE Ret(DInt(0), num.s)

\* CallstackFunc whose guard lives until the function returns
CallstackFunc_HoldsGuard(args, s) ==
    IF Len(args) # 1 THEN Ret(DInt(0), s)
    ELSE LET g == Note(GuardEnter(s), "GetCallstack", "")
             success == g.stack.ok
             stack == g.stack.frames
         IN  IF ~success THEN Ret(DInt(0), GuardLeave(g))
             ELSE LET num == expr_eval(args[1], g)
                      address == StaticCastFromDouble("u32", num.v, s.ub)
                      cstr == expr_get_str(args[1])
                      AtAddress == \E i \in 1..Len(stack) : stack[i].vAddress = address
                      Named == \E i \in 1..Len(stack) : Contains(stack[i].Name, cstr.s)
                  IN  IF ~isnan(num.v) THEN Ret(Bool(AtAddress), GuardLeave(num.s))
                      ELSE IF ~cstr.null THEN Ret(Bool(Named), GuardLeave(num.s))
                      ELSE Ret(DInt(0), GuardLeave(num.s))

\* CallstackFunc
CallstackFunc(args, s) ==
    IF Len(args) # 1 THEN Ret(DInt(0), s)
    ELSE LET g == Note(GuardEnter(s), "GetCallstack", "")
             success == g.stack.ok
             stack == g.stack.frames
             u == GuardLeave(g)
         IN  IF ~success THEN Ret(DInt(0), u)
             ELSE LET num == expr_eval(args[1], u)
                      address == StaticCastFromDouble("u32", num.v, s.ub)
                      cstr == expr_get_str(args[1])
                      \* std::any_of over the frames
                      AtAddress == \E i \in 1..Len(stack) : stack[i].vAddress = address
                      Named == \E i \in 1..Len(stack) : Contains(stack[i].Name, cstr.s)
                  IN  IF ~isnan(num.v) THEN Ret(Bool(AtAddress), num.s)
                      ELSE IF ~cstr.null THEN Ret(Bool(Named), num.s)
                      ELSE Ret(DInt(0), num.s)

\* ReadStringArg: v is the std::optional<std::string>, [has, str]
NullOpt == [has |-> FALSE, str |-> <<>>]
Some(str) == [has |-> TRUE, str |-> str]

ReadStringArg(e, s) ==
    LET num == expr_eval(e, s)
        address == StaticCastFromDouble("u32", num.v, s.ub)
        cstr == expr_get_str(e)
    IN  IF ~isnan(num.v)
        THEN Ret(Some(HostGetString(num.s.mem, address)), Note(num.s, "HostGetString", ""))
        ELSE IF ~cstr.null THEN Ret(Some(cstr.s), num.s)
        ELSE Ret(NullOpt, num.s)

\* StreqFunc that takes an argument without a string for the empty string
StreqFunc_NullIsEmpty(args, s) ==
    IF Len(args) # 2 THEN Ret(DInt(0), s)
    ELSE LET g == GuardEnter(s)
             arg0 == ReadStringArg(args[1], g)
             arg1 == ReadStringArg(args[2], arg0.s)
         IN  Ret(Bool(arg0.v.str = arg1.v.str), GuardLeave(arg1.s))

\* StreqFunc
StreqFunc(args, s) ==
    IF Len(args) # 2 THEN Ret(DInt(0), s)
    ELSE LET g == GuardEnter(s)
             arg0 == ReadStringArg(args[1], g)
             arg1 == ReadStringArg(args[2], arg0.s)
         IN  IF ~arg0.v.has THEN Ret(DInt(0), GuardLeave(arg0.s))
             ELSE IF ~arg1.v.has THEN Ret(DInt(0), GuardLeave(arg1.s))
             ELSE Ret(Bool(arg0.v.str = arg1.v.str), GuardLeave(arg1.s))

-----------------------------------------------------------------------------
(* Expression: constructor, SynchronizeBindings, Reporting *)

\* Expression::Expression: one binding per variable, in the variables' order; a
\* fresh variable's slot is 0
Construct(e) ==
    LET names == expr_names(e)
    IN  [live |-> TRUE,
         m_expr |-> e,
         m_vars |-> [i \in 1..Len(names) |-> [name |-> names[i], value |-> DInt(0)]],
         m_binds |-> [i \in 1..Len(names) |-> ResolveBinding(names[i])]]

NoExpression == [live |-> FALSE, m_expr |-> Const(DInt(0)), m_vars |-> <<>>, m_binds |-> <<>>]

\* static_cast<u32>(static_cast<s64>(v->value))
ToU32ViaS64(d, ub) == StaticCastFromInt("u32", StaticCastFromDouble("s64", d, ub))

\* the cases of the switch: each yields the variable's slot and the processor state
Synced(value, ppc) == [value |-> value, ppc |-> ppc]

\* case Zero that leaves the slot as the last evaluation left it
SyncZero_KeepsSlot(dir, value, ppc) == Synced(value, ppc)

SyncZero(dir, value, ppc) ==
    IF dir = "From" THEN Synced(DInt(0), ppc) ELSE Synced(value, ppc)

\* case GPR that converts straight to u32, with no s64 in between
SyncGPR_NoS64(dir, index, value, ppc, ub) ==
    IF dir = "From" THEN Synced(ToDouble(ppc.gpr[index]), ppc)
    ELSE Synced(value, [ppc EXCEPT !.gpr[index] = StaticCastFromDouble("u32", value, ub)])

SyncGPR(dir, index, value, ppc, ub) ==
    IF dir = "From" THEN Synced(ToDouble(ppc.gpr[index]), ppc)
    ELSE Synced(value, [ppc EXCEPT !.gpr[index] = ToU32ViaS64(value, ub)])

\* PS0AsDouble / SetPS0: the register's low double, as it is
SyncFPR(dir, index, value, ppc) ==
    IF dir = "From" THEN Synced(ppc.ps[index], ppc)
    ELSE Synced(value, [ppc EXCEPT !.ps[index] = value])

\* case SPR that goes through a signed 32-bit integer on the way back
SyncSPR_ViaS32(dir, index, value, ppc, ub) ==
    IF dir = "From" THEN Synced(ToDouble(ppc.spr[index]), ppc)
    ELSE Synced(value, [ppc EXCEPT !.spr[index] =
                    StaticCastFromInt("u32", StaticCastFromDouble("s32", value, ub))])

SyncSPR(dir, index, value, ppc, ub) ==
    IF dir = "From" THEN Synced(ToDouble(ppc.spr[index]), ppc)
    ELSE Synced(value, [ppc EXCEPT !.spr[index] = ToU32ViaS64(value, ub)])

\* case PCtr that also writes the slot back
SyncPCtr_WritesBack(dir, value, ppc, ub) ==
    IF dir = "From" THEN Synced(ToDouble(ppc.pc), ppc)
    ELSE Synced(value, [ppc EXCEPT !.pc = ToU32ViaS64(value, ub)])

SyncPCtr(dir, value, ppc, ub) ==
    IF dir = "From" THEN Synced(ToDouble(ppc.pc), ppc) ELSE Synced(value, ppc)

SyncMSR(dir, value, ppc, ub) ==
    IF dir = "From" THEN Synced(ToDouble(ppc.msr), ppc)
    ELSE Synced(value, [ppc EXCEPT !.msr = ToU32ViaS64(value, ub)])

\* Expression::SynchronizeBindings: the loop from variable i on, each variable
\* with the binding at the same position
RECURSIVE SyncLoop(_, _, _, _, _, _)
SyncLoop(dir, i, m_vars, m_binds, ppc, ub) ==
    IF i > Len(m_vars) THEN [m_vars |-> m_vars, ppc |-> ppc]
    ELSE LET bind == m_binds[i]
             value == m_vars[i].value
             r == CASE bind.type = "Zero" -> SyncZero(dir, value, ppc)
                    [] bind.type = "GPR" -> SyncGPR(dir, bind.index, value, ppc, ub)
                    [] bind.type = "FPR" -> SyncFPR(dir, bind.index, value, ppc)
                    [] bind.type = "SPR" -> SyncSPR(dir, bind.index, value, ppc, ub)
                    [] bind.type = "PCtr" -> SyncPCtr(dir, value, ppc, ub)
                    [] bind.type = "MSR" -> SyncMSR(dir, value, ppc, ub)
         IN  SyncLoop(dir, i + 1, [m_vars EXCEPT ![i].value = r.value], m_binds,
                      r.ppc, ub)

SynchronizeBindings(dir, m_vars, m_binds, ppc, ub) ==
    SyncLoop(dir, 1, m_vars, m_binds, ppc, ub)

\* Expression::Reporting: what it emits, in order.  The message lists each
\* variable as name=value.
Output(chan, res, message, is_nan) ==
    [chan |-> chan, result |-> res, message |-> message, nan |-> is_nan]

\* Reporting that looks for a NaN in the result alone
Reporting_ResultOnly(res, m_vars) ==
    LET is_nan == isnan(res)
        message == [i \in 1..Len(m_vars) |-> m_vars[i]]
    IN  (IF is_nan THEN <<Output("DisplayMessage", res, <<>>, TRUE)>> ELSE <<>>)
        \o (IF res # DInt(0) \/ is_nan
            THEN <<Output("NOTICE_LOG", res, message, is_nan)>>
            ELSE <<>>)

Reporting(res, m_vars) ==
    LET is_nan == isnan(res) \/ \E i \in 1..Len(m_vars) : isnan(m_vars[i].value)
        message == [i \in 1..Len(m_vars) |-> m_vars[i]]
    IN  (IF is_nan THEN <<Output("DisplayMessage", res, <<>>, TRUE)>> ELSE <<>>)
        \o (IF res # DInt(0) \/ is_nan
            THEN <<Output("NOTICE_LOG", res, message, is_nan)>>
            ELSE <<>>)

\* Evaluate's statements with the two SynchronizeBindings calls exchanged
EvaluateBody_SyncSwapped == <<"SyncTo", "expr_eval", "SyncFrom", "Reporting", "return">>

\* Expression::Evaluate: its statements, in order
EvaluateBody == <<"SyncFrom", "expr_eval", "SyncTo", "Reporting", "return">>

-----------------------------------------------------------------------------
(* Inputs: names, literals, expressions, processor and stack contents *)

n_r0 == <<114, 48>>           \* "r0"
n_r3 == <<114, 51>>           \* "r3"
n_R3 == <<82, 51>>            \* "R3"
n_foo == <<102, 111, 111>>    \* "foo"
n_pc == <<112, 99>>           \* "pc"
n_msr == <<109, 115, 114>>    \* "msr"
n_lr == <<108, 114>>          \* "lr"
n_f1 == <<102, 49>>           \* "f1"

s_abc == <<97, 98, 99>>       \* "abc"
s_abd == <<97, 98, 100>>      \* "abd"
s_main == <<109, 97, 105, 110>>   \* "main"
s_ai == <<97, 105>>           \* "ai"
s_g == <<1, 2>>               \* the two characters of the guest string at RamBase

PC0 == RamBase + 1
FrameAddress == RamBase + 2

\* outcomes of an out-of-range conversion: the lowest and the highest value
UBOutcomes == {0, -1}

F1Values == {Num(3), NaN, Inf}

Stacks ==
    {[ok |-> FALSE, frames |-> <<[vAddress |-> 0, Name |-> s_main]>>],
     [ok |-> TRUE, frames |-> <<>>],
     [ok |-> TRUE, frames |-> <<[vAddress |-> FrameAddress, Name |-> s_main]>>]}

Widths == {"u8", "u16", "u32"}

ReadName(W) == CASE W = "u8" -> "read_u8" [] W = "u16" -> "read_u16" [] W = "u32" -> "read_u32"
WriteName(W) == CASE W = "u8" -> "write_u8" [] W = "u16" -> "write_u16" [] W = "u32" -> "write_u32"

\* the addresses and values of the memory expressions: the first and the last
\* address that hold a whole W, and one outside RAM; the largest W value
MemAddrs(W) == {RamBase, RamBase + RamSize - SizeOf(W), 0}
WriteExprs ==
    UNION {{Call(WriteName(W), <<Const(DInt(MaxOf(W))), Const(DInt(a))>>) :
               a \in {RamBase + RamSize - SizeOf(W), 0}} : W \in Widths}
    \cup {Call("write_u8", <<Const(DInt(3)), Const(DInt(RamBase + 1))>>)}
ReadExprs ==
    UNION {{Call(ReadName(W), <<Const(DInt(a))>>) : a \in MemAddrs(W)} : W \in Widths}
    \cup {Call("read_s8", <<Const(DInt(RamBase + RamSize - 1))>>)}

RegisterExprs ==
    {Eq(Var(n_r0), Const(DInt(5))),                       \* r0 == 5
     Eq(Var(n_r0), Const(DInt(9))),                       \* r0 == 9
     Assign(n_r0, Const(DInt(9))),                        \* r0 = 9
     Assign(n_r0, Add(Var(n_lr), Const(Num(3)))),         \* r0 = lr + 1.5
     Assign(n_lr, Const(Num(-3))),                        \* lr = -1.5
     Assign(n_msr, Var(n_f1)),                            \* msr = f1
     Assign(n_pc, Const(DInt(0))),                        \* pc = 0
     Eq(Var(n_pc), Var(n_r3)),                            \* pc == r3
     Assign(n_foo, Const(DInt(3))),                       \* foo = 3
     Add(Var(n_foo), Var(n_R3)),                          \* foo + R3
     Assign(n_R3, Call("write_u8", <<Const(DInt(2)), Const(DInt(RamBase))>>))}
                                                          \* R3 = write_u8(2, RamBase)

ArityExprs ==
    {Call("read_u8", <<>>),
     Call("read_u32", <<Assign(n_foo, Const(DInt(1))), Const(DInt(RamBase))>>),
     Call("write_u8", <<Call("write_u8", <<Const(DInt(3)), Const(DInt(RamBase))>>)>>),
     Call("write_u32", <<Const(DInt(1)), Const(DInt(RamBase)), Const(DInt(2))>>),
     Call("u8", <<>>),
     Call("s16", <<Const(DInt(1)), Call("read_u8", <<Const(DInt(RamBase))>>)>>),
     Call("callstack", <<>>),
     Call("callstack", <<Call("read_u8", <<Const(DInt(RamBase))>>), Const(DInt(0))>>),
     Call("streq", <<Str(s_abc)>>),
     Call("streq", <<Const(DInt(RamBase)), Str(s_g), Str(s_g)>>),
     Add(Call("read_u16", <<>>), Const(DInt(4)))}

CastExprs ==
    {Call("u8", <<Const(DInt(MaxOf("u8") + 2))>>),
     Call("s8", <<Const(DInt(MaxOf("u8")))>>)}

CallstackExprs ==
    {Call("callstack", <<Const(DInt(0))>>),
     Call("callstack", <<Const(Num(2 * FrameAddress + 1))>>),
     Call("callstack", <<Str(s_ai)>>),
     Call("callstack", <<Str(s_abc)>>),
     Call("callstack", <<Var(n_f1)>>),
     Call("callstack", <<Call("read_u8", <<Const(DInt(RamBase + 1))>>)>>)}

StreqExprs ==
    {Call("streq", <<Str(s_abc), Str(s_abc)>>),
     Call("streq", <<Str(s_abc), Str(s_abd)>>),
     Call("streq", <<Const(DInt(RamBase)), Str(s_g)>>),
     Call("streq", <<Str(s_g), Const(DInt(RamBase + 1))>>),
     Call("streq", <<Const(DInt(0)), Const(DInt(RamBase + RamSize))>>),
     Call("streq", <<Var(n_f1), Str(s_abc)>>),
     Call("streq", <<Str(s_abc), Var(n_f1)>>),
     Call("streq", <<Var(n_f1), Const(DInt(0))>>),
     Call("streq", <<Call("read_u8", <<Const(DInt(RamBase))>>), Str(s_g)>>)}

Exprs == RegisterExprs \cup WriteExprs \cup ReadExprs \cup ArityExprs \cup CastExprs
            \cup CallstackExprs \cup StreqExprs

\* what the front end gives TryParse over one session: one condition, or a
\* condition and the one that replaces it
Scripts ==
    {<<e>> : e \in Exprs}
    \cup UNION {{<<Call(WriteName(W), <<Const(DInt(v)), Const(DInt(RamBase + 1))>>),
                   Call(ReadName(W), <<Const(DInt(RamBase + 1))>>)>> :
                    v \in {MaxOf(W), MaxOf(W) - 2}} : W \in Widths}
    \cup {<<Assign(n_r0, Const(DInt(9))), Eq(Var(n_r0), Const(DInt(9)))>>,
          <<Assign(n_lr, Const(Num(-3))), Assign(n_r0, Add(Var(n_lr), Const(Num(3))))>>,
          <<Assign(n_msr, Var(n_f1)), Eq(Var(n_pc), Var(n_msr))>>}

-----------------------------------------------------------------------------
(* The state machine *)

Init ==
    /\ \E f1 \in F1Values :
          ppc_state = [gpr |-> [i \in 0..(NumGPR - 1) |-> 0],
                       ps |-> [i \in 0..(NumGPR - 1) |-> IF i = 1 THEN f1 ELSE DInt(0)],
                       spr |-> [i \in 1..Len(SprIds) |-> 0],
                       pc |-> PC0,
                       msr |-> 0]
    /\ mem = [o \in 0..(RamSize - 1) |-> IF o = 0 THEN 1 ELSE IF o = 1 THEN 2 ELSE 0]
    /\ callstack \in Stacks
    /\ todo \in Scripts
    /\ obj = NoExpression
    /\ step = 0
    /\ result = DInt(0)
    /\ ret = DInt(0)
    /\ held = 0
    /\ log = <<>>
    /\ out = <<>>

\* Expression::TryParse of the next text, which compiles: a new Expression object
TryParse ==
    /\ step = 0
    /\ todo # <<>>
    /\ obj' = Construct(Head(todo))
    /\ todo' = Tail(todo)
    /\ UNCHANGED <<ppc_state, mem, callstack, step, result, ret, held, log, out>>

\* the calling context takes or drops a CPUThreadGuard of its own around its calls
CallerGuard ==
    /\ step = 0
    /\ held' = 1 - held
    /\ UNCHANGED <<todo, ppc_state, mem, callstack, obj, step, result, ret, log, out>>

\* a call of Evaluate on the object
EvaluateCall ==
    /\ step = 0
    /\ obj.live
    /\ step' = 1
    /\ log' = <<>>
    /\ out' = <<>>
    /\ UNCHANGED <<todo, ppc_state, mem, callstack, obj, result, ret, held>>

At(stmt) == step \in 1..Len(EvaluateBody) /\ EvaluateBody[step] = stmt

\* SynchronizeBindings(system, SynchronizeDirection::From)
SyncFrom ==
    /\ At("SyncFrom")
    /\ \E ub \in UBOutcomes :
          LET r == SynchronizeBindings("From", obj.m_vars, obj.m_binds, ppc_state, ub)
          IN  /\ obj' = [obj EXCEPT !.m_vars = r.m_vars]
              /\ ppc_state' = r.ppc
    /\ log' = Append(log, Event("SyncFrom", "", held))
    /\ step' = step + 1
    /\ UNCHANGED <<todo, mem, callstack, result, ret, held, out>>

\* double result = expr_eval(m_expr.get())
ExprEval ==
    /\ At("expr_eval")
    /\ \E ub \in UBOutcomes :
          LET s0 == [vals |-> [i \in 1..Len(obj.m_vars) |-> obj.m_vars[i].value],
                     names |-> [i \in 1..Len(obj.m_vars) |-> obj.m_vars[i].name],
                     mem |-> mem, stack |-> callstack, held |-> held, ub |-> ub,
                     log |-> Append(log, Event("expr_eval", "", held))]
              r == expr_eval(obj.m_expr, s0)
          IN  /\ result' = r.v
              /\ obj' = [obj EXCEPT !.m_vars =
                            [i \in 1..Len(obj.m_vars) |->
                                [name |-> obj.m_vars[i].name, value |-> r.s.vals[i]]]]
              /\ mem' = r.s.mem
              /\ held' = r.s.held
              /\ log' = r.s.log
    /\ step' = step + 1
    /\ UNCHANGED <<todo, ppc_state, callstack, ret, out>>

\* SynchronizeBindings(system, SynchronizeDirection::To)
SyncTo ==
    /\ At("SyncTo")
    /\ \E ub \in UBOutcomes :
          LET r == SynchronizeBindings("To", obj.m_vars, obj.m_binds, ppc_state, ub)
          IN  /\ obj' = [obj EXCEPT !.m_vars = r.m_vars]
              /\ ppc_state' = r.ppc
    /\ log' = Append(log, Event("SyncTo", "", held))
    /\ step' = step + 1
    /\ UNCHANGED <<todo, mem, callstack, result, ret, held, out>>

\* Reporting(result)
Report ==
    /\ At("Reporting")
    /\ out' = Reporting(result, obj.m_vars)
    /\ log' = Append(log, Event("Reporting", "", held))
    /\ step' = step + 1
    /\ UNCHANGED <<todo, ppc_state, mem, callstack, obj, result, ret, held>>

\* return result
Return ==
    /\ At("return")
    /\ ret' = result
    /\ log' = Append(log, Event("return", "", held))
    /\ step' = 0
    /\ UNCHANGED <<todo, ppc_state, mem, callstack, obj, result, held, out>>

\* the emulation context runs, which it does only while nobody holds a
\* CPUThreadGuard: it loads r0, or moves on to the next instruction
EmuSetRegister ==
    /\ held = 0
    /\ ppc_state.gpr[0] # 5
    /\ ppc_state' = [ppc_state EXCEPT !.gpr[0] = 5]
    /\ UNCHANGED <<todo, mem, callstack, obj, step, result, ret, held, log, out>>

EmuAdvance ==
    /\ held = 0
    /\ ppc_state' = [ppc_state EXCEPT !.pc = IF @ = PC0 THEN PC0 + 1 ELSE PC0]
    /\ UNCHANGED <<todo, mem, callstack, obj, step, result, ret, held, log, out>>

Next ==
    \/ TryParse
    \/ CallerGuard
    \/ EvaluateCall
    \/ SyncFrom
    \/ ExprEval
    \/ SyncTo
    \/ Report
    \/ Return
    \/ EmuSetRegister
    \/ EmuAdvance

Spec == Init /\ [][Next]_vars

\* a started Evaluate call goes on: the calling context keeps running, and each
\* CPUThreadGuard it asks for is granted in the end
EvaluateStep == SyncFrom \/ ExprEval \/ SyncTo \/ Report \/ Return

FairSpec == Spec /\ WF_vars(EvaluateStep)

-----------------------------------------------------------------------------
(* A paused emulation: the debugger compiles one condition and evaluates it, *)
(* and nothing else touches the processor.  The conditions name every key of *)
(* the binding table, and names the table does not list.                     *)

n_r == <<114>>                \* "r"
n_r32 == <<114, 51, 50>>      \* "r32"
n_f32 == <<102, 51, 50>>      \* "f32"
n_PC == <<80, 67>>            \* "PC"
n_a == <<97>>                 \* "a": before every key
n_zz == <<122, 122>>          \* "zz": after every key
n_xer == <<120, 101, 114>>    \* "xer"
n_thrm3 == <<116, 104, 114, 109, 51>>   \* "thrm3"

TableNames == {unsorted_lookup[k].first : k \in 1..Len(unsorted_lookup)}
OtherNames == {n_r, n_r32, n_f32, n_PC, n_a, n_zz, n_R3, n_foo}
LookupNames == TableNames \cup OtherNames

\* register contents that tell the registers apart; v is what r0 holds
QuietRegValues == {1, MaxOf("u32")}
QuietRegs(v, f) ==
    [gpr |-> [i \in 0..(NumGPR - 1) |-> (v - i) % Modulus("u32")],
     ps |-> [i \in 0..(NumGPR - 1) |-> IF i % 2 = 1 THEN f ELSE DInt(i)],
     spr |-> [i \in 1..Len(SprIds) |-> (v - 2 * i) % Modulus("u32")],
     pc |-> PC0,
     msr |-> (v - 3) % Modulus("u32")]

QuietExprs ==
    {Var(n) : n \in LookupNames}
    \cup {Eq(Var(n_pc), Var(n_r3)),                                  \* pc == r3
          Add(Var(n_f1), Var(n_msr)),                                \* f1 + msr
          Add(Var(n_xer), Var(n_f1)),                                \* xer + f1
          Call("read_u8", <<Var(n_lr)>>),                            \* read_u8(lr)
          Call("streq", <<Call("read_u8", <<Const(DInt(RamBase))>>), Str(s_g)>>),
          Call("callstack", <<Var(n_r3)>>),                          \* callstack(r3)
          Assign(n_r0, Const(DInt(9))),                              \* r0 = 9
          Add(Var(n_lr), Assign(n_msr, Var(n_f1)))}                  \* lr + (msr = f1)

InitQuiet ==
    /\ \E v \in QuietRegValues, f \in F1Values : ppc_state = QuietRegs(v, f)
    /\ mem = [o \in 0..(RamSize - 1) |-> IF o = 0 THEN 1 ELSE IF o = 1 THEN 2 ELSE 0]
    /\ callstack = [ok |-> TRUE, frames |-> <<[vAddress |-> FrameAddress, Name |-> s_main]>>]
    /\ todo \in {<<e>> : e \in QuietExprs}
    /\ obj = NoExpression
    /\ step = 0
    /\ result = DInt(0)
    /\ ret = DInt(0)
    /\ held = 0
    /\ log = <<>>
    /\ out = <<>>

NextQuiet ==
    \/ TryParse
    \/ EvaluateCall
    \/ SyncFrom
    \/ ExprEval
    \/ SyncTo
    \/ Report
    \/ Return

SpecQuiet == InitQuiet /\ [][NextQuiet]_vars
-----------------------------------------------------------------------------
(* Properties *)

\* a step of Evaluate that runs the statement stmt
Runs(stmt) == At(stmt) /\ step' = step + 1

StmtOps == {"SyncFrom", "expr_eval", "SyncTo", "Reporting", "return"}
IsStmt(ev) == ev.op \in StmtOps
EvaluateOrder == <<"SyncFrom", "expr_eval", "SyncTo", "Reporting", "return">>

Slot(o, n) == o.m_vars[VarIndex([i \in 1..Len(o.m_vars) |-> o.m_vars[i].name], n)].value
HasVar(o, n) == \E i \in 1..Len(o.m_vars) : o.m_vars[i].name = n

\* C1: every Evaluate call runs Sync-From, the evaluation, Sync-To and Reporting
\* once each and in this order, and returns the value the evaluation produced;
\* every host function call lies after Sync-From and before Sync-To.
C1_OrderSoFar ==
    LET st == SelectSeq(log, IsStmt)
    IN  /\ Len(st) <= Len(EvaluateOrder)
        /\ \A i \in 1..Len(st) : st[i].op = EvaluateOrder[i]
        /\ step # 0 => Len(st) = step - 1
        /\ \A i \in 1..Len(log) :
              ~IsStmt(log[i]) =>
                  /\ \E j \in 1..(i - 1) : log[j].op = "expr_eval"
                  /\ \A j \in 1..(i - 1) : log[j].op # "SyncTo"
C1_ReturnStep ==
    /\ (step # 0 /\ step' = 0) =>
          /\ Len(SelectSeq(log', IsStmt)) = Len(EvaluateOrder)
          /\ ret' = result
    /\ result' # result =>
          LET st == SelectSeq(log', IsStmt) IN st[Len(st)].op = "expr_eval"
C1_EvaluateOrder == [](C1_OrderSoFar) /\ [][C1_ReturnStep]_vars

\* C1 witness: a call has returned the value of an evaluation that called a host
\* function
C1_Witness ==
    /\ step = 0
    /\ Len(log) > Len(EvaluateOrder)
    /\ log[Len(log)].op = "return"
    /\ \E i \in 1..Len(log) : log[i].op = "HostWrite"
    /\ ret = DInt(MaxOf("u32"))

\* C2: whenever the evaluating context has read or written processor state
\* (Sync-From or Sync-To of a bound variable), guest memory or the call stack, it
\* held the CPU guard; hence a register read at Sync-From still has that value
\* when the evaluation starts.
HostAccessOps == {"HostRead", "HostWrite", "HostGetString", "GetCallstack"}
Bound(o) == {i \in 1..Len(o.m_binds) : o.m_binds[i].type # "Zero"}
C2_GuardHeldOnAccess ==
    /\ \A i \in 1..Len(log) : log[i].op \in HostAccessOps => log[i].held > 0
    /\ \A i \in 1..Len(log) :
          (log[i].op \in {"SyncFrom", "SyncTo"} /\ Bound(obj) # {}) => log[i].held > 0
    /\ At("expr_eval") =>
          \A i \in Bound(obj) :
              obj.m_binds[i].type = "GPR" =>
                  obj.m_vars[i].value = ToDouble(ppc_state.gpr[obj.m_binds[i].index])

\* C3: a variable without a binding has slot 0 when the evaluation starts, whatever
\* the last evaluation assigned to it, and no step of Evaluate on an expression
\* whose variables are all unbound changes the processor state.
C3_SlotZeroAtEval ==
    At("expr_eval") =>
        \A i \in 1..Len(obj.m_vars) :
            (\A k \in 1..Len(unsorted_lookup) :
                unsorted_lookup[k].first # obj.m_vars[i].name)
            => obj.m_vars[i].value = DInt(0)
C3_NoWrite ==
    (step' # step /\ \A i \in 1..Len(obj.m_vars) :
                        \A k \in 1..Len(unsorted_lookup) :
                            unsorted_lookup[k].first # obj.m_vars[i].name)
    => ppc_state' = ppc_state
C3_UnboundVariable == [](C3_SlotZeroAtEval) /\ [][C3_NoWrite]_vars

\* C3 witness: the evaluation of "foo = 3" is about to start again after a call
\* that assigned 3 to foo and returned it
C3_Witness ==
    /\ At("expr_eval")
    /\ obj.m_expr = Assign(n_foo, Const(DInt(3)))
    /\ ret = DInt(3)
    /\ Slot(obj, n_foo) = DInt(0)

\* C4: no step of Evaluate changes the processor's PC, also when the expression
\* assigns to pc, and Sync-From loads the pc variable's slot from the PC.
C4_Step ==
    /\ step' # step => ppc_state'.pc = ppc_state.pc
    /\ (Runs("SyncFrom") /\ HasVar(obj, n_pc)) =>
          Slot(obj', n_pc) = DInt(ppc_state.pc)
C4_PCReadOnly == [][C4_Step]_vars

\* C4 witness: Sync-To of "pc = 0" is done, the slot holds 0 and the PC does not
C4_Witness ==
    /\ At("Reporting")
    /\ obj.m_expr = Assign(n_pc, Const(DInt(0)))
    /\ Slot(obj, n_pc) = DInt(0)
    /\ ppc_state.pc # 0

\* C5: Sync-To stores trunc(v) modulo 2^32 in the general register, special
\* register or MSR of every variable whose slot v is finite and within the signed
\* 64-bit range, Reporting and the return leave it there, and Sync-From loads the
\* slot with the register's value.
IntegerSlot(ppc, bind) ==
    CASE bind.type = "GPR" -> ppc.gpr[bind.index]
      [] bind.type = "SPR" -> ppc.spr[bind.index]
      [] bind.type = "MSR" -> ppc.msr
InS64(d) == d.k = "num" /\ Trunc(d) >= -(2 ^ (8 * ByteBits - 1))
                        /\ Trunc(d) <= 2 ^ (8 * ByteBits - 1) - 1
C5_Step ==
    /\ Runs("SyncTo") =>
          \A i \in 1..Len(obj.m_vars) :
              (obj.m_binds[i].type \in {"GPR", "SPR", "MSR"} /\ InS64(obj.m_vars[i].value))
              => IntegerSlot(ppc_state', obj.m_binds[i])
                    = Trunc(obj.m_vars[i].value) % (2 ^ (4 * ByteBits))
    /\ (Runs("Reporting") \/ Runs("return")) => ppc_state' = ppc_state
    /\ Runs("SyncFrom") =>
          \A i \in 1..Len(obj.m_vars) :
              obj.m_binds[i].type \in {"GPR", "SPR", "MSR"}
              => obj'.m_vars[i].value = Num(2 * IntegerSlot(ppc_state, obj.m_binds[i]))
C5_WriteBack == [][C5_Step]_vars

\* C5 witness: "r0 == 9" has returned 1 with 9 in GPR0, which only the write-back
\* of "r0 = 9" puts there
C5_Witness ==
    /\ step = 0
    /\ obj.m_expr = Eq(Var(n_r0), Const(DInt(9)))
    /\ ret = DInt(1)
    /\ ppc_state.gpr[0] = 9
    /\ log # <<>>

\* C5 second witness state: a slot beyond 32 bits has been written back reduced
C5_WitnessWrap ==
    /\ At("Reporting")
    /\ HasVar(obj, n_r0)
    /\ Slot(obj, n_r0) = Num(2 * (2 ^ (4 * ByteBits)) + 1)
    /\ ppc_state.gpr[0] = 0

\* C6: every variable of an Expression has the binding the table lists under
\* exactly its name, and none when no key equals it ("r3" is general register 3,
\* "R3" and "foo" have none); there is one binding per variable, in the variables'
\* order, and Sync-From loads each slot through the binding at its position.
ListedBinding(name) ==
    LET hits == {k \in 1..Len(unsorted_lookup) : unsorted_lookup[k].first = name}
    IN  IF hits = {} THEN [type |-> "Zero", index |-> 0]
        ELSE unsorted_lookup[CHOOSE k \in hits : TRUE].second
ReadThrough(bind, ppc) ==
    CASE bind.type = "Zero" -> Num(0)
      [] bind.type = "GPR" -> Num(2 * ppc.gpr[bind.index])
      [] bind.type = "FPR" -> ppc.ps[bind.index]
      [] bind.type = "SPR" -> Num(2 * ppc.spr[bind.index])
      [] bind.type = "PCtr" -> Num(2 * ppc.pc)
      [] bind.type = "MSR" -> Num(2 * ppc.msr)
C6_Bindings ==
    obj.live =>
        /\ Len(obj.m_binds) = Len(obj.m_vars)
        /\ \A i \in 1..Len(obj.m_vars) :
              /\ obj.m_binds[i] = ListedBinding(obj.m_vars[i].name)
              /\ obj.m_vars[i].name = n_r3 => obj.m_binds[i] = [type |-> "GPR", index |-> 3]
              /\ obj.m_vars[i].name \in {n_R3, n_foo} => obj.m_binds[i].type = "Zero"
C6_SyncPairs ==
    Runs("SyncFrom") =>
        \A i \in 1..Len(obj.m_vars) :
            obj'.m_vars[i].value = ReadThrough(ListedBinding(obj.m_vars[i].name), ppc_state)
C6_BindingResolution == [](C6_Bindings) /\ [][C6_SyncPairs]_vars

\* C6 witness: "pc == r3" is compiled and synchronized, pc bound to the program
\* counter and r3 to general register 3
C6_Witness ==
    /\ At("expr_eval")
    /\ obj.m_expr = Eq(Var(n_pc), Var(n_r3))
    /\ obj.m_binds = <<[type |-> "PCtr", index |-> 0], [type |-> "GPR", index |-> 3]>>
    /\ Slot(obj, n_pc) = Num(2 * ppc_state.pc)

\* C7: evaluating write_W(v, a), for W among u8, u16, u32, v an integer W holds and
\* a an address where a whole W lies in RAM, returns v, and read_W(a) evaluated on
\* the memory it leaves returns v.
IsIntConst(e) == e.op = "const" /\ e.val.k = "num" /\ e.val.h % 2 = 0
C7_Step ==
    Runs("expr_eval") =>
        \A W \in Widths :
            LET e == obj.m_expr
                v == e.args[1].val.h \div 2
                a == e.args[2].val.h \div 2
                after == [vals |-> <<>>, names |-> <<>>, mem |-> mem', stack |-> callstack,
                          held |-> held, ub |-> 0, log |-> <<>>]
            IN  (/\ e.op = "func" /\ e.f = WriteName(W) /\ Len(e.args) = 2
                 /\ IsIntConst(e.args[1]) /\ IsIntConst(e.args[2])
                 /\ v >= 0 /\ v < 2 ^ (SizeOf(W) * ByteBits)
                 /\ a >= RamBase /\ a + SizeOf(W) <= RamBase + RamSize)
                => /\ result' = Num(2 * v)
                   /\ expr_eval(Call(ReadName(W), <<e.args[2]>>), after).v = Num(2 * v)
C7_MemoryRoundTrip == [][C7_Step]_vars

\* C7 witness: write_u32 of a value that is not all ones has been evaluated at an
\* address in RAM and has returned it
C7_Witness ==
    /\ At("SyncTo")
    /\ obj.m_expr = Call("write_u32", <<Const(DInt(MaxOf("u32") - 2)), Const(DInt(RamBase + 1))>>)
    /\ result = DInt(MaxOf("u32") - 2)
    /\ mem[1] # 0

\* C8: a host function called with another number of arguments than its arity
\* returns 0 and does nothing else: no argument is evaluated, no guard taken, no
\* memory or call stack touched; the evaluation around it goes on to its result.
Arity(f) ==
    CASE f \in {"read_u8", "read_s8", "read_u16", "read_s16", "read_u32", "read_s32"} -> 1
      [] f \in {"write_u8", "write_u16", "write_u32"} -> 2
      [] f \in {"u8", "s8", "u16", "s16", "u32", "s32"} -> 1
      [] f = "callstack" -> 1
      [] f = "streq" -> 2
WrongArity(e) == e.op = "func" /\ Len(e.args) # Arity(e.f)
OnlyTheCall(f) ==
    /\ log' = log \o <<[op |-> "expr_eval", f |-> "", held |-> held],
                       [op |-> "func", f |-> f, held |-> held]>>
    /\ mem' = mem
    /\ obj' = obj
    /\ held' = held
C8_Step ==
    Runs("expr_eval") =>
        LET e == obj.m_expr
        IN  /\ WrongArity(e) => (result' = Num(0) /\ OnlyTheCall(e.f))
            /\ (e.op = "+" /\ WrongArity(e.args[1]) /\ e.args[2].op = "const")
               => (result' = e.args[2].val /\ OnlyTheCall(e.args[1].f))
C8_ArityMismatch == [][C8_Step]_vars

\* C8 witness: write_u32 with three arguments has been evaluated to 0 and the
\* memory is as it was
C8_Witness ==
    /\ At("SyncTo")
    /\ obj.m_expr.op = "func" /\ obj.m_expr.f = "write_u32" /\ Len(obj.m_expr.args) = 3
    /\ result = Num(0)
    /\ Len(log) = 3
    /\ mem[0] = 1

\* C9: callstack(x) returns 0 when GetCallstack fails; otherwise, for a number x
\* whose integer part is a 32-bit address, 1 exactly when a frame has that address,
\* and for a string literal x, 1 exactly when a frame's name contains it.
IsSubstring(needle, hay) ==
    \E i \in 1..(Len(hay) + 1) :
        i + Len(needle) - 1 <= Len(hay) /\ SubSeq(hay, i, i + Len(needle) - 1) = needle
C9_Step ==
    Runs("expr_eval") =>
        LET e == obj.m_expr
            x == e.args[1]
            frames == callstack.frames
            Is(b) == result' = IF b THEN Num(2) ELSE Num(0)
        IN  (e.op = "func" /\ e.f = "callstack" /\ Len(e.args) = 1) =>
                /\ ~callstack.ok => result' = Num(0)
                /\ (callstack.ok /\ x.op = "const" /\ x.val.k = "num"
                    /\ Trunc(x.val) >= 0 /\ Trunc(x.val) < 2 ^ (4 * ByteBits))
                   => Is(\E i \in 1..Len(frames) : frames[i].vAddress = Trunc(x.val))
                /\ (callstack.ok /\ x.op = "string")
                   => Is(\E i \in 1..Len(frames) : IsSubstring(x.name, frames[i].Name))
C9_Callstack == [][C9_Step]_vars

\* C9 witness: callstack of a frame's address, given with a fraction, returned 1
C9_Witness ==
    /\ At("SyncTo")
    /\ obj.m_expr = Call("callstack", <<Const(Num(2 * FrameAddress + 1))>>)
    /\ result = Num(2)

\* C10: streq(a, b) takes a string literal as itself and a number that is a 32-bit
\* address as the NUL-terminated guest string there; it returns 1 exactly when
\* both arguments give a string and the strings are equal, and 0 otherwise, also
\* when an argument gives no string.
CStringAt(m, a) ==
    IF a < RamBase \/ a >= RamBase + RamSize THEN <<>>
    ELSE LET off == a - RamBase
             stops == {o \in off..(RamSize - 1) : m[o] = 0} \cup {RamSize}
         IN  [i \in 1..(Min(stops) - off) |-> m[off + i - 1]]
ArgValue(x) == IF x.op = "var" THEN Slot(obj, x.name) ELSE x.val
IsAddress(d) == d.k = "num" /\ Trunc(d) >= 0 /\ Trunc(d) < 2 ^ (4 * ByteBits)
\* the arguments the statement covers: literals, and constants and variables
\* that are no number or an address
Covered(x) ==
    \/ x.op = "string"
    \/ x.op \in {"const", "var"} /\ (ArgValue(x).k = "nan" \/ IsAddress(ArgValue(x)))
GivesString(x) == x.op = "string" \/ IsAddress(ArgValue(x))
StringOf(x) == IF x.op = "string" THEN x.name ELSE CStringAt(mem, Trunc(ArgValue(x)))
C10_Step ==
    Runs("expr_eval") =>
        LET e == obj.m_expr
        IN  (e.op = "func" /\ e.f = "streq" /\ Len(e.args) = 2
             /\ Covered(e.args[1]) /\ Covered(e.args[2]))
            => result' = IF /\ GivesString(e.args[1]) /\ GivesString(e.args[2])
                            /\ StringOf(e.args[1]) = StringOf(e.args[2])
                         THEN Num(2) ELSE Num(0)
C10_Streq == [][C10_Step]_vars

\* C10 witness: streq of the guest string at RamBase and the literal with the same
\* characters returned 1
C10_Witness ==
    /\ At("SyncTo")
    /\ obj.m_expr = Call("streq", <<Const(DInt(RamBase)), Str(s_g)>>)
    /\ result = Num(2)


-----------------------------------------------------------------------------
(* Properties of the table, of Reporting, of the guard and of read-only      *)
(* conditions                                                                *)

\* C11: the binding table has no two entries with the same key and is sorted by
\* key, and the constructor binds every variable whose name is a key of the table
\* to the binding the table lists for that name - and a variable with any other
\* name to none.
C11_NoDuplicateKeys ==
    \A i, j \in 1..Len(unsorted_lookup) :
        i # j => unsorted_lookup[i].first # unsorted_lookup[j].first
C11_SortedByKey ==
    /\ Len(sorted_lookup) = Len(unsorted_lookup)
    /\ \A k \in 1..Len(unsorted_lookup) :
          \E i \in 1..Len(sorted_lookup) : sorted_lookup[i] = unsorted_lookup[k]
    /\ \A i \in 1..(Len(sorted_lookup) - 1) :
          StrLess(sorted_lookup[i].first, sorted_lookup[i + 1].first)
C11_LookupIsListed ==
    obj.live =>
        \A i \in 1..Len(obj.m_vars) :
            /\ \A k \in 1..Len(unsorted_lookup) :
                  unsorted_lookup[k].first = obj.m_vars[i].name
                  => obj.m_binds[i] = unsorted_lookup[k].second
            /\ obj.m_vars[i].name \notin TableNames => obj.m_binds[i] = ZeroBinding
C11_BindingTable == C11_NoDuplicateKeys /\ C11_SortedByKey /\ C11_LookupIsListed

\* C11 witness: the condition "thrm3", the last entry of the list and not the
\* last key in order, is compiled and bound to the THRM3 special register
C11_Witness ==
    /\ obj.live
    /\ obj.m_expr = Var(n_thrm3)
    /\ obj.m_binds = <<[type |-> "SPR", index |-> SPR("SPR_THRM3")]>>
    /\ sorted_lookup[Len(sorted_lookup)].first # n_thrm3

\* C12: Reporting surfaces the NaN notice exactly when the result or at least one
\* variable slot is NaN; it emits the trace line, with the result and every
\* variable's name and post-evaluation value, whenever the result is nonzero or
\* NaN, and emits none when the result is zero and nothing is NaN; it changes
\* neither the slots nor the processor state nor memory, and Evaluate then returns
\* the result.
C12_AnyNaN == isnan(result) \/ \E i \in 1..Len(obj.m_vars) : isnan(obj.m_vars[i].value)
C12_Step ==
    /\ Runs("SyncTo") =>
          \A i \in 1..Len(obj.m_vars) : obj'.m_vars[i] = obj.m_vars[i]
    /\ Runs("Reporting") =>
          LET notices == {i \in 1..Len(out') : out'[i].chan = "DisplayMessage"}
              traces == {i \in 1..Len(out') : out'[i].chan = "NOTICE_LOG"}
          IN  /\ notices # {} <=> C12_AnyNaN
              /\ (result # DInt(0) \/ isnan(result)) =>
                    /\ Cardinality(traces) = 1
                    /\ \A i \in traces : /\ out'[i].result = result
                                         /\ out'[i].message = obj.m_vars
              /\ (result = DInt(0) /\ ~C12_AnyNaN) => traces = {}
              /\ \A i \in traces : out'[i].nan <=> C12_AnyNaN
              /\ obj' = obj
              /\ ppc_state' = ppc_state
              /\ mem' = mem
              /\ result' = result
    /\ Runs("return") => ret' = result
C12_Reporting == [][C12_Step]_vars

\* C12 witness: streq(f1, "abc") with a NaN in f1 has evaluated to 0, and
\* Reporting has surfaced the notice and emitted the trace line with f1's value
C12_Witness ==
    /\ At("return")
    /\ obj.m_expr = Call("streq", <<Var(n_f1), Str(s_abc)>>)
    /\ result = DInt(0)
    /\ out = <<Output("DisplayMessage", DInt(0), <<>>, TRUE),
               Output("NOTICE_LOG", DInt(0), <<[name |-> n_f1, value |-> NaN]>>, TRUE)>>

\* C13: every Evaluate call that keeps being given the guard returns; no step of
\* it changes the calling context's guard count, which at the return is what it
\* was at the call, and inside the evaluation it never falls below that; streq
\* evaluates its arguments with its own guard held, so a host function in an
\* argument takes the guard a second time; callstack has released its guard when
\* it evaluates its argument.
C13_Terminates == (step # 0) ~> (step = 0)
C13_Events == SubSeq(log', Len(log) + 2, Len(log'))
C13_Accesses == {"HostRead", "HostWrite"}
C13_Step ==
    /\ step' # step => held' = held
    /\ Runs("return") => held' = log[1].held
    /\ Runs("expr_eval") =>
          LET ev == C13_Events
              e == obj.m_expr
          IN  /\ \A i \in 1..Len(ev) : ev[i].held >= held
              /\ Cardinality({i \in 1..Len(ev) : ev[i].op = "guard"})
                    = Cardinality({i \in 1..Len(ev) : ev[i].op = "unguard"})
              /\ (e.op = "func" /\ e.f = "streq" /\ Len(e.args) = 2) =>
                    \A i \in 2..Len(ev) :
                        /\ ev[i].op = "func" => ev[i].held = held + 1
                        /\ ev[i].op \in C13_Accesses => ev[i].held = held + 2
                        /\ ev[i].op = "HostGetString" => ev[i].held = held + 1
              /\ (e.op = "func" /\ e.f = "callstack" /\ Len(e.args) = 1) =>
                    \A i \in 2..Len(ev) :
                        /\ ev[i].op = "func" => ev[i].held = held
                        /\ ev[i].op \in C13_Accesses => ev[i].held = held + 1
C13_GuardReentrancy == C13_Terminates /\ [][C13_Step]_vars

\* C13 witness: streq(read_u8(RamBase), <1,2>) has returned to a caller that holds
\* one guard and still holds exactly one; the inner read ran with three held
C13_Witness ==
    /\ step = 0
    /\ held = 1
    /\ obj.m_expr = Call("streq", <<Call("read_u8", <<Const(DInt(RamBase))>>), Str(s_g)>>)
    /\ Len(log) > 0
    /\ log[Len(log)].op = "return"
    /\ log[1].held = 1
    /\ \E i \in 1..Len(log) : log[i].op = "HostRead" /\ log[i].held = 3

\* C14: while nothing but Evaluate touches the processor, no step of Evaluate on a
\* condition without an assignment and without a write_* call changes the
\* processor state: Sync-From loads every bound variable's slot with its
\* register's value, the evaluation leaves the slots alone, and Sync-To stores in
\* every general, float and special register and in the MSR the value it holds.
WriteFuncs == {"write_u8", "write_u16", "write_u32"}
RECURSIVE ReadOnly(_)
ReadOnly(e) ==
    /\ e.op # "="
    /\ ~(e.op = "func" /\ e.f \in WriteFuncs)
    /\ \A i \in 1..Len(e.args) : ReadOnly(e.args[i])
RegisterOf(ppc, bind) ==
    CASE bind.type = "GPR" -> ToDouble(ppc.gpr[bind.index])
      [] bind.type = "FPR" -> ppc.ps[bind.index]
      [] bind.type = "SPR" -> ToDouble(ppc.spr[bind.index])
      [] bind.type = "PCtr" -> ToDouble(ppc.pc)
      [] bind.type = "MSR" -> ToDouble(ppc.msr)
C14_Step ==
    (obj.live /\ ReadOnly(obj.m_expr)) =>
        /\ ppc_state' = ppc_state
        /\ mem' = mem
        /\ Runs("SyncFrom") =>
              \A i \in Bound(obj) :
                  obj'.m_vars[i].value = RegisterOf(ppc_state, obj.m_binds[i])
        /\ Runs("expr_eval") => obj' = obj
        /\ Runs("SyncTo") =>
              \A i \in Bound(obj) :
                  /\ obj.m_vars[i].value = RegisterOf(ppc_state, obj.m_binds[i])
                  /\ RegisterOf(ppc_state', obj.m_binds[i]) = obj.m_vars[i].value
C14_ReadOnlyCondition == [][C14_Step]_vars

\* C14 witness: Sync-To of the condition "xer" is done; XER holds a value
\* above the signed 32-bit range, the slot holds it too, and the processor state
\* is the one the condition was compiled in
C14_Witness ==
    /\ At("Reporting")
    /\ obj.m_expr = Var(n_xer)
    /\ ppc_state.spr[SPR("SPR_XER")] > MaxOf("s32")
    /\ Slot(obj, n_xer) = ToDouble(ppc_state.spr[SPR("SPR_XER")])
    /\ \E v \in QuietRegValues, f \in F1Values : ppc_state = QuietRegs(v, f)
=============================================================================
